---------------------------- MODULE Spec2Model ----------------------------
(***************************************************************************)
(* The educational multi-agent pipeline of back-end/src/agents: the        *)
(* orchestrator (core/orchestrator.py) runs the code generator, the line   *)
(* explainer and the code chunker one after the other for every call of    *)
(* process_request / aprocess_request.  The external model (agent.run /    *)
(* agent.arun) is the environment: each of its replies is drawn from a     *)
(* small set.  The FastAPI application (server.py) holds one orchestrator  *)
(* and serves POST /api/v1/generate and GET /health with it.  Text is a    *)
(* sequence of tokens, so that prefixes and containment of messages can be *)
(* stated; dates and languages are strings.                                *)
(***************************************************************************)
EXTENDS Integers, Sequences, FiniteSets, TLC

\* Last reading of the wall clock, in clock units.
MaxClock == 2
\* Clock units per hundredth of a second.
ClockRes == 2

VARIABLES
    clock,      \* time.time() / datetime.now(), in clock units
    minted,     \* the identifiers uuid.uuid4() has handed out, in order
    pc,         \* pc[r]: where call r stands
    mode,       \* mode[r]: "sync" (process_request) or "async" (aprocess_request)
    args,       \* args[r]: what the caller of call r gave for the request
    request,    \* request[r]: the CodeGenerationRequest of call r
    locals,     \* locals[r]: the local variables of call r
    frame,      \* frame[r]: the local variables of the stage call r is in
    trace,      \* trace[r]: the external calls of call r and how each ended
    outcome,    \* outcome[r]: what call r gave its caller
    environ,    \* os.environ: the value of ANTHROPIC_API_KEY, "" when unset
    app,        \* how far the import of server.py has come
    orchestrator, \* the attributes of the one OrchestratorAgent
    http,       \* http[r]: the POST request served by call r and its response
    health      \* the last response of GET /health

vars == <<clock, minted, pc, mode, args, request, locals, frame, trace,
          outcome, environ, app, orchestrator, http, health>>

\* The calls of process_request / aprocess_request made on the one
\* orchestrator, numbered in the order they begin: a pair, so that every
\* interleaving of two calls is explored.
Calls == {1, 2}

None == [none |-> TRUE]

-----------------------------------------------------------------------------
(* Values of the schemas (models/schemas.py) and of the external model.    *)

Languages == {"python", "javascript"}
DefaultLanguage == "python"
Omitted == "<omitted>"

\* CodeGenerationRequest(**a): language defaults when it is not given.
CodeGenerationRequest(a) ==
    [prompt |-> a.prompt,
     language |-> IF a.language = Omitted THEN DefaultLanguage ELSE a.language]

Prompts == {<<"add", " ", "two", " ", "numbers">>}
LangArgs == {Omitted, "javascript"}

\* datetime.now().isoformat()
IsoFormat(t) == "T+" \o ToString(t)

\* Dates the external model may put in its output ("" when it gives none).
ModelDates == {"", "2025-10-31T12:00:00", "2025-11-01T09:30:00"}

NL == "\n"
\* Optional[str]: << >> is None, <<s>> is the string s.
NoStr == << >>

CodeLine(n, text, expl) ==
    [line |-> n, line_code |-> text, line_explanation |-> expl]

CodeChunk(first, last, text, expl) ==
    [first_line |-> first, last_line |-> last, line_code |-> text,
     line_explanation |-> expl]

\* Fields each output schema requires (Field(...)).
CodeGenerationOutputFields == {"date", "language", "code"}
LineExplanationOutputFields == {"date", "language", "code", "explanation"}
CodeChunkOutputFields == {"date", "language", "code", "explanation"}

\* What agent.run / agent.arun can do: raise, or return a RunOutput whose
\* content is an instance of the output schema ("object") or a dict: a
\* function on the keys it holds.  The code text is a sequence of
\* characters.
ModelErrors == {<<"rate limit">>}

Raises == {[kind |-> "raise", text |-> t] : t \in ModelErrors}

GenReplies ==
    Raises \cup
    { [kind |-> "object", content |->
          [date |-> "", language |-> "python", code |-> << >>]],
      [kind |-> "dict", content |->
          [date |-> "2025-10-31T12:00:00", language |-> "javascript",
           code |-> <<"a", NL, "b">>]],
      [kind |-> "dict", content |->
          [language |-> "python", code |-> <<"a">>]] }

LineReplies ==
    Raises \cup
    { [kind |-> "object", content |->
          [date |-> "", language |-> "python",
           code |-> <<CodeLine(1, <<"a">>, <<"names a">>),
                      CodeLine(2, <<"b">>, <<"names b">>)>>,
           explanation |-> "adds two numbers"]],
      [kind |-> "dict", content |->
          [date |-> "2025-11-01T09:30:00", language |-> "javascript",
           code |-> <<CodeLine(2, <<" ">>, <<"spacing">>)>>,
           explanation |-> "names two things"]],
      [kind |-> "dict", content |->
          [date |-> "2025-11-01T09:30:00", language |-> "python",
           code |-> << >>]] }

ChunkReplies ==
    Raises \cup
    { [kind |-> "object", content |->
          [date |-> "2025-10-31T12:00:00", language |-> "javascript",
           code |-> <<CodeChunk(1, 2, <<"a", NL, "b">>, <<"the names">>)>>,
           explanation |-> "names two things"]],
      [kind |-> "dict", content |->
          [date |-> "", language |-> "python",
           code |-> <<CodeChunk(2, 1, <<"b">>, NoStr),
                      CodeChunk(2, 3, <<"b">>, NoStr)>>,
           explanation |-> "groups the lines"]],
      [kind |-> "dict", content |->
          [date |-> "", language |-> "python",
           explanation |-> "groups the lines"]] }

-----------------------------------------------------------------------------
(* Results of a stage: a value returned or an exception raised.            *)

Return(v) == [ok |-> TRUE, value |-> v]
Raise(msg) == [ok |-> FALSE, message |-> msg]

\* str(e) of pydantic's ValidationError for Schema(**content).
ValidationError(fields, content) ==
    <<"validation error: missing ">> \o
    <<CHOOSE f \in fields : f \notin DOMAIN content>>

\* isinstance(response.content, Schema) ? content : Schema(**content)
Extract(fields, reply) ==
    IF reply.kind = "raise" THEN Raise(reply.text)
    ELSE IF reply.kind = "object" THEN Return(reply.content)
    ELSE IF fields \subseteq DOMAIN reply.content THEN Return(reply.content)
    ELSE Raise(ValidationError(fields, reply.content))


-----------------------------------------------------------------------------
(* The three stages (core/code_generator.py, line_explainer.py,            *)
(* code_chunker.py).  m is "sync" for the plain method and "async" for the *)
(* a-prefixed one; reply is what agent.run / agent.arun did.               *)

Modes == {"sync", "async"}

Async(m, capital, rest) ==
    IF m = "async" THEN <<"Async ", rest>> ELSE <<capital>>

GenerationFailed(m) ==
    Async(m, "Code generation failed: ", "code generation failed: ")
\* ExplanationFailed, were the text copied from the generator unchanged.
ExplanationFailedCopied(m) ==
    Async(m, "Code generation failed: ", "code generation failed: ")
ExplanationFailed(m) ==
    Async(m, "Line explanation failed: ", "line explanation failed: ")
ChunkingFailed(m) ==
    Async(m, "Code chunking failed: ", "code chunking failed: ")

\* GenerateCode without "Ensure language matches request".
GenerateCodeKeepLanguage(m, req, current_date, reply) ==
    LET got == Extract(CodeGenerationOutputFields, reply) IN
    IF ~got.ok THEN Raise(GenerationFailed(m) \o got.message)
    ELSE Return([got.value EXCEPT
                    !.date = IF @ = "" THEN current_date ELSE @])

\* CodeGeneratorAgent.generate_code / agenerate_code, from the reply on.
GenerateCode(m, req, current_date, reply) ==
    LET got == Extract(CodeGenerationOutputFields, reply) IN
    IF ~got.ok THEN Raise(GenerationFailed(m) \o got.message)
    ELSE Return([got.value EXCEPT
                    !.date = IF @ = "" THEN current_date ELSE @,
                    !.language = IF @ # req.language THEN req.language ELSE @])

\* Split, were the text cut as text.splitlines() cuts it: no piece for an
\* empty text, none after a line break that ends the text.
RECURSIVE SplitLines(_)
SplitLines(text) ==
    IF text = << >> THEN << >>
    ELSE IF \A i \in 1..Len(text) : text[i] # NL THEN <<text>>
    ELSE LET i == CHOOSE k \in 1..Len(text) :
                     text[k] = NL /\ \A j \in 1..(k - 1) : text[j] # NL
         IN  <<SubSeq(text, 1, i - 1)>>
                 \o SplitLines(SubSeq(text, i + 1, Len(text)))

\* text.split('\n'): the pieces of the text between its line breaks.
RECURSIVE Split(_)
Split(text) ==
    IF \A i \in 1..Len(text) : text[i] # NL THEN <<text>>
    ELSE LET i == CHOOSE k \in 1..Len(text) :
                     text[k] = NL /\ \A j \in 1..(k - 1) : text[j] # NL
         IN  <<SubSeq(text, 1, i - 1)>> \o Split(SubSeq(text, i + 1, Len(text)))

\* ExplainCode, were the lines of the model counted against the lines of
\* the code and a difference raised.
ExplainCodeReconciled(m, code_output, reply) ==
    LET got == Extract(LineExplanationOutputFields, reply) IN
    IF ~got.ok THEN Raise(ExplanationFailed(m) \o got.message)
    ELSE IF Len(got.value.code) # Len(Split(code_output.code))
    THEN Raise(ExplanationFailed(m) \o <<"line count mismatch">>)
    ELSE Return([got.value EXCEPT
                    !.date = code_output.date,
                    !.language = code_output.language])

\* ExplainCode, were only the language preserved.
ExplainCodeKeepDate(m, code_output, reply) ==
    LET got == Extract(LineExplanationOutputFields, reply) IN
    IF ~got.ok THEN Raise(ExplanationFailed(m) \o got.message)
    ELSE Return([got.value EXCEPT !.language = code_output.language])

\* LineExplainerAgent.explain_code / aexplain_code, from the reply on.
ExplainCode(m, code_output, reply) ==
    LET got == Extract(LineExplanationOutputFields, reply) IN
    IF ~got.ok THEN Raise(ExplanationFailed(m) \o got.message)
    ELSE Return([got.value EXCEPT
                    !.date = code_output.date,
                    !.language = code_output.language])

\* ChunkCode, were the overall explanation left as the model gave it.
ChunkCodeKeepExplanation(m, line_output, reply) ==
    LET got == Extract(CodeChunkOutputFields, reply) IN
    IF ~got.ok THEN Raise(ChunkingFailed(m) \o got.message)
    ELSE Return([got.value EXCEPT
                    !.date = line_output.date,
                    !.language = line_output.language])

\* validate_line_numbers(chunks)
ValidateLineNumbers(chunks) ==
    \A i \in 1..Len(chunks) : chunks[i].first_line <= chunks[i].last_line

\* ChunkCode, were validate_line_numbers applied to the chunks and a
\* failure of it raised.
ChunkCodeValidated(m, line_output, reply) ==
    LET got == Extract(CodeChunkOutputFields, reply) IN
    IF ~got.ok THEN Raise(ChunkingFailed(m) \o got.message)
    ELSE IF ~ValidateLineNumbers(got.value.code)
    THEN Raise(ChunkingFailed(m) \o <<"invalid line numbers">>)
    ELSE Return([got.value EXCEPT
                    !.date = line_output.date,
                    !.language = line_output.language,
                    !.explanation = line_output.explanation])

\* ChunkCode, were what the try block raises let through as it is.
ChunkCodeUnwrapped(m, line_output, reply) ==
    LET got == Extract(CodeChunkOutputFields, reply) IN
    IF ~got.ok THEN Raise(got.message)
    ELSE Return([got.value EXCEPT
                    !.date = line_output.date,
                    !.language = line_output.language,
                    !.explanation = line_output.explanation])

\* ChunkCode, were achunk_code to return the model's date, language and
\* explanation where chunk_code overwrites them.
ChunkCodeAsyncKeeps(m, line_output, reply) ==
    LET got == Extract(CodeChunkOutputFields, reply) IN
    IF ~got.ok THEN Raise(ChunkingFailed(m) \o got.message)
    ELSE IF m = "async" THEN Return(got.value)
    ELSE Return([got.value EXCEPT
                    !.date = line_output.date,
                    !.language = line_output.language,
                    !.explanation = line_output.explanation])

\* CodeChunkerAgent.chunk_code / achunk_code, from the reply on.
ChunkCode(m, line_output, reply) ==
    LET got == Extract(CodeChunkOutputFields, reply) IN
    IF ~got.ok THEN Raise(ChunkingFailed(m) \o got.message)
    ELSE Return([got.value EXCEPT
                    !.date = line_output.date,
                    !.language = line_output.language,
                    !.explanation = line_output.explanation])

-----------------------------------------------------------------------------
(* The orchestrator (core/orchestrator.py).                                *)

\* str(uuid.uuid4()), ids being the identifiers handed out so far: one that
\* is not among them.
Uuid4(ids) == "uuid-" \o ToString(Len(ids) + 1)

\* A duration of e clock units, rounded to hundredths of a second as
\* round(x, 2) and format(x, ".2f") round: to the nearest hundredth, a
\* duration half way between two hundredths to either.
TwoDecimals(e) ==
    LET q == e \div ClockRes
        rest == e % ClockRes
    IN  IF 2 * rest < ClockRes THEN {q}
        ELSE IF 2 * rest > ClockRes THEN {q + 1}
        ELSE {q, q + 1}

\* f"{x:.2f}" of a duration of h hundredths.
Format2f(h) ==
    ToString(h \div 100) \o "." \o
    (IF h % 100 < 10 THEN "0" ELSE "") \o ToString(h % 100)

\* OrchestrationFailed, were str(e) left out of the message.
OrchestrationFailedNoCause(m, h, e) ==
    Async(m, "Orchestration failed after ", "orchestration failed after ")
    \o <<Format2f(h), "s">>

\* error_message of the except branch.
OrchestrationFailed(m, h, e) ==
    Async(m, "Orchestration failed after ", "orchestration failed after ")
    \o <<Format2f(h), "s: ">> \o e

OrchestratorResponse(request_id, code_output, line_output, chunk_output, h) ==
    [request_id |-> request_id,
     generated_code |-> code_output,
     line_explanations |-> line_output,
     chunked_code |-> chunk_output,
     processing_time_seconds |-> h,
     status |-> "success"]

Returned(v) == [kind |-> "return", value |-> v]
Raised(msg) == [kind |-> "raise", message |-> msg]

\* An entry of the trace: the external call of a stage, how the stage ended
\* and what the external model had replied.
Issue(stage) ==
    [stage |-> stage, end |-> "pending", reply |-> None, error |-> << >>]
\* The trace with its last call ended: the stage returned, or raised error.
Ended(t, how, reply, error) ==
    [t EXCEPT ![Len(t)].end = how, ![Len(t)].reply = reply,
              ![Len(t)].error = error]

-----------------------------------------------------------------------------
(* The application (server.py).                                            *)

\* The value ANTHROPIC_API_KEY has when it is set.
ApiKey == "sk-ant-key"
\* The default of OrchestratorAgent.__init__'s model_id.
DefaultModelId == "claude-sonnet-4-20250514"

\* The attributes __init__ sets: the identifier and the three agents, each
\* with the identifier it was made with.
OrchestratorAgent(model_id) ==
    [model_id |-> model_id,
     code_generator |-> [model_id |-> model_id],
     line_explainer |-> [model_id |-> model_id],
     code_chunker |-> [model_id |-> model_id]]

\* str.isspace() of a one-character token.
IsSpace(c) == c \in {" ", NL, "\t"}

\* str.strip(): the text without its leading and trailing whitespace.
RECURSIVE Strip(_)
Strip(t) ==
    IF t = << >> THEN t
    ELSE IF IsSpace(Head(t)) THEN Strip(Tail(t))
    ELSE IF IsSpace(t[Len(t)]) THEN Strip(SubSeq(t, 1, Len(t) - 1))
    ELSE t

\* JSON bodies of POST /api/v1/generate: an object with the keys it holds,
\* each a string; language is Omitted when the key is left out.
Bodies ==
    { [language |-> "python"],
      [prompt |-> << >>, language |-> "python"],
      [prompt |-> <<" ", " ", " ">>, language |-> Omitted],
      [prompt |-> <<" ", "add", " ", "two", NL>>, language |-> Omitted],
      [prompt |-> <<"add", " ", "two">>, language |-> "javascript"] }

\* The fields CodeGenerationRequest requires (Field(...)) and the body
\* does not hold.
InvalidFields(body) == {f \in {"prompt"} : f \notin DOMAIN body}

\* FastAPI's answer to a body the request schema rejects.
RequestValidationError(fields) ==
    [status_code |-> 422, detail |-> fields]

HTTPException(status_code, detail) ==
    [status_code |-> status_code, detail |-> detail]

\* A value returned by the handler, serialised as response_model.
JSONResponse(content) == [status_code |-> 200, content |-> content]

\* Reraise, were the HTTPException caught by "except Exception" and made
\* the detail of a 500.
ReraiseWrapped(exc) ==
    HTTPException(500, <<"Code generation failed: ",
                         ToString(exc.status_code) \o ": ">> \o exc.detail)

\* "except HTTPException: raise": an HTTPException raised in the body of
\* generate_educational_code leaves the handler as it is.
Reraise(exc) == exc

\* The answer of the handler registered for Exception to an exception no
\* route caught.
global_exception_handler(exc, path, t) ==
    [status_code |-> 500,
     content |-> [error |-> "Internal server error",
                  detail |-> exc,
                  path |-> path,
                  timestamp |-> IsoFormat(t)]]

\* PromptIsEmpty, were the prompt not stripped before it is measured.
PromptIsEmptyUnstripped(prompt) == Len(prompt) = 0

\* "if not request.prompt or len(request.prompt.strip()) == 0"
PromptIsEmpty(prompt) == Len(prompt) = 0 \/ Len(Strip(prompt)) = 0

\* Handled, were str(e) passed on as the detail, with nothing before it.
HandledBare(o) ==
    IF o.kind = "return" THEN JSONResponse(o.value)
    ELSE HTTPException(500, o.message)

\* Handled, were the 500 raised without str(e) in its detail.
HandledWithoutCause(o) ==
    IF o.kind = "return" THEN JSONResponse(o.value)
    ELSE HTTPException(500, <<"Code generation failed">>)

\* generate_educational_code from the return of "await orchestrator.
\* aprocess_request(request)" on: the response is returned, an exception
\* becomes the detail of a 500.
Handled(o) ==
    IF o.kind = "return" THEN JSONResponse(o.value)
    ELSE HTTPException(500, <<"Code generation failed: ">> \o o.message)

\* The exchange h of a call once the call gave o: answered, when the call
\* was made by the handler.
Answered(h, o) ==
    IF h = None THEN h ELSE [h EXCEPT !.response = Handled(o)]

Init ==
    /\ clock = 0
    /\ minted = << >>
    /\ pc = [r \in Calls |-> "Idle"]
    /\ mode = [r \in Calls |-> "none"]
    /\ args = [r \in Calls |-> None]
    /\ request = [r \in Calls |-> None]
    /\ locals = [r \in Calls |-> None]
    /\ frame = [r \in Calls |-> None]
    /\ trace = [r \in Calls |-> << >>]
    /\ outcome = [r \in Calls |-> None]
    /\ environ = ApiKey
    /\ app = "unloaded"
    /\ orchestrator = OrchestratorAgent(DefaultModelId)
    /\ http = [r \in Calls |-> None]
    /\ health = None

\* Tick, were a call still waiting for the external model ended by the
\* orchestrator when time passes.
TickTimesOut ==
    /\ clock < MaxClock
    /\ clock' = clock + 1
    /\ pc' = [r \in Calls |->
                IF pc[r] \in {"Generating", "Explaining", "Chunking"}
                THEN "Failed" ELSE pc[r]]
    /\ UNCHANGED <<minted, mode, args, request, locals, frame, trace,
                   outcome, environ, app, orchestrator, http, health>>

\* Time passes.
Tick ==
    /\ clock < MaxClock
    /\ clock' = clock + 1
    /\ UNCHANGED <<minted, pc, mode, args, request, locals, frame, trace,
                   outcome, environ, app, orchestrator, http, health>>

\* Begin, were the identifier made once and used by every call.
BeginSharedId(r) ==
    /\ pc[r] = "Idle"
    /\ r > 1 => pc[r - 1] # "Idle"
    /\ \E m \in Modes, p \in Prompts, l \in LangArgs :
          LET a == [prompt |-> p, language |-> l] IN
          /\ mode' = [mode EXCEPT ![r] = m]
          /\ args' = [args EXCEPT ![r] = a]
          /\ request' = [request EXCEPT ![r] = CodeGenerationRequest(a)]
    /\ LET id == IF minted = << >> THEN Uuid4(minted) ELSE minted[1] IN
          /\ locals' = [locals EXCEPT ![r] =
                          [start_time |-> clock,
                           request_id |-> id,
                           code_output |-> None,
                           line_output |-> None]]
          /\ minted' = Append(minted, id)
    /\ pc' = [pc EXCEPT ![r] = "Created"]
    /\ UNCHANGED <<clock, frame, trace, outcome>>
    /\ UNCHANGED <<environ, app, orchestrator, http, health>>

\* Begin, were the identifier of the request in progress kept in a field
\* of the orchestrator.
BeginKeepsRequestId(r) ==
    /\ pc[r] = "Idle"
    /\ r > 1 => pc[r - 1] # "Idle"
    /\ \E m \in Modes, p \in Prompts, l \in LangArgs :
          LET a == [prompt |-> p, language |-> l] IN
          /\ mode' = [mode EXCEPT ![r] = m]
          /\ args' = [args EXCEPT ![r] = a]
          /\ request' = [request EXCEPT ![r] = CodeGenerationRequest(a)]
    /\ locals' = [locals EXCEPT ![r] =
                    [start_time |-> clock,
                     request_id |-> Uuid4(minted),
                     code_output |-> None,
                     line_output |-> None]]
    /\ orchestrator' =
          [model_id |-> orchestrator.model_id,
           code_generator |-> orchestrator.code_generator,
           line_explainer |-> orchestrator.line_explainer,
           code_chunker |-> orchestrator.code_chunker,
           request_id |-> Uuid4(minted)]
    /\ minted' = Append(minted, Uuid4(minted))
    /\ pc' = [pc EXCEPT ![r] = "Created"]
    /\ UNCHANGED <<clock, frame, trace, outcome>>
    /\ UNCHANGED <<environ, app, http, health>>

\* The r-th call of process_request / aprocess_request begins: start_time
\* and request_id are set.
Begin(r) ==
    /\ pc[r] = "Idle"
    /\ r > 1 => pc[r - 1] # "Idle"
    /\ \E m \in Modes, p \in Prompts, l \in LangArgs :
          LET a == [prompt |-> p, language |-> l] IN
          /\ mode' = [mode EXCEPT ![r] = m]
          /\ args' = [args EXCEPT ![r] = a]
          /\ request' = [request EXCEPT ![r] = CodeGenerationRequest(a)]
    /\ locals' = [locals EXCEPT ![r] =
                    [start_time |-> clock,
                     request_id |-> Uuid4(minted),
                     code_output |-> None,
                     line_output |-> None]]
    /\ minted' = Append(minted, Uuid4(minted))
    /\ pc' = [pc EXCEPT ![r] = "Created"]
    /\ UNCHANGED <<clock, frame, trace, outcome>>
    /\ UNCHANGED <<environ, app, orchestrator, http, health>>

\* CallGenerate, were the orchestrator to stop working once a call has
\* failed.
CallGenerateUnlessFailed(r) ==
    /\ pc[r] = "Created"
    /\ \A q \in Calls : pc[q] # "Failed"
    /\ frame' = [frame EXCEPT ![r] =
                    [request |-> request[r], current_date |-> IsoFormat(clock)]]
    /\ trace' = [trace EXCEPT ![r] = Append(@, Issue("generation"))]
    /\ pc' = [pc EXCEPT ![r] = "Generating"]
    /\ UNCHANGED <<clock, minted, mode, args, request, locals, outcome>>
    /\ UNCHANGED <<environ, app, orchestrator, http, health>>

\* Step 1: generate_code(request) runs up to its external call.
CallGenerate(r) ==
    /\ pc[r] = "Created"
    /\ frame' = [frame EXCEPT ![r] =
                    [request |-> request[r], current_date |-> IsoFormat(clock)]]
    /\ trace' = [trace EXCEPT ![r] = Append(@, Issue("generation"))]
    /\ pc' = [pc EXCEPT ![r] = "Generating"]
    /\ UNCHANGED <<clock, minted, mode, args, request, locals, outcome>>
    /\ UNCHANGED <<environ, app, orchestrator, http, health>>

\* Fail, were a failed call put back at its start instead of ending.
FailThenRestart(r, message, reply) ==
    /\ \E h \in TwoDecimals(clock - locals[r].start_time) :
          outcome' = [outcome EXCEPT ![r] =
                        Raised(OrchestrationFailed(mode[r], h, message))]
    /\ http' = [http EXCEPT ![r] = Answered(@, outcome'[r])]
    /\ trace' = [trace EXCEPT ![r] = Ended(@, "raised", reply, message)]
    /\ frame' = [frame EXCEPT ![r] = None]
    /\ pc' = [pc EXCEPT ![r] = "Created"]
    /\ UNCHANGED locals

\* The except branch: the elapsed time goes into the one error raised.
Fail(r, message, reply) ==
    /\ \E h \in TwoDecimals(clock - locals[r].start_time) :
          outcome' = [outcome EXCEPT ![r] =
                        Raised(OrchestrationFailed(mode[r], h, message))]
    /\ http' = [http EXCEPT ![r] = Answered(@, outcome'[r])]
    /\ trace' = [trace EXCEPT ![r] = Ended(@, "raised", reply, message)]
    /\ locals' = [locals EXCEPT ![r] = None]
    /\ frame' = [frame EXCEPT ![r] = None]
    /\ pc' = [pc EXCEPT ![r] = "Failed"]

\* GenerateReturns, were a failure of step 1 swallowed and step 2 run all
\* the same.
GenerateReturnsUnchecked(r) ==
    /\ pc[r] = "Generating"
    /\ \E reply \in GenReplies :
          LET res == GenerateCode(mode[r], frame[r].request,
                                  frame[r].current_date, reply)
              out == IF res.ok THEN res.value ELSE None
          IN  /\ locals' = [locals EXCEPT ![r].code_output = out]
              /\ frame' = [frame EXCEPT ![r] = [code_output |-> out]]
              /\ trace' = [trace EXCEPT ![r] =
                    Append(IF res.ok THEN Ended(@, "returned", reply, << >>)
                           ELSE Ended(@, "raised", reply, res.message),
                           Issue("explanation"))]
              /\ pc' = [pc EXCEPT ![r] = "Explaining"]
              /\ UNCHANGED <<outcome, http>>
    /\ UNCHANGED <<clock, minted, mode, args, request>>
    /\ UNCHANGED <<environ, app, orchestrator, health>>

\* GenerateReturns, were code_output kept in a field of the orchestrator,
\* which every call in progress reads, instead of a local variable.
GenerateReturnsShared(r) ==
    /\ pc[r] = "Generating"
    /\ \E reply \in GenReplies :
          LET res == GenerateCode(mode[r], frame[r].request,
                                  frame[r].current_date, reply) IN
          IF res.ok
          THEN /\ locals' = [q \in Calls |->
                     IF locals[q] = None THEN locals[q]
                     ELSE [locals[q] EXCEPT !.code_output = res.value]]
               /\ frame' = [frame EXCEPT ![r] = [code_output |-> res.value]]
               /\ trace' = [trace EXCEPT ![r] =
                    Append(Ended(@, "returned", reply, << >>), Issue("explanation"))]
               /\ pc' = [pc EXCEPT ![r] = "Explaining"]
               /\ UNCHANGED <<outcome, http>>
          ELSE Fail(r, res.message, reply)
    /\ UNCHANGED <<clock, minted, mode, args, request>>
    /\ UNCHANGED <<environ, app, orchestrator, health>>

\* The external call of step 1 ends; on success step 2, explain_code(
\* code_output), runs up to its external call.
GenerateReturns(r) ==
    /\ pc[r] = "Generating"
    /\ \E reply \in GenReplies :
          LET res == GenerateCode(mode[r], frame[r].request,
                                  frame[r].current_date, reply) IN
          IF res.ok
          THEN /\ locals' = [locals EXCEPT ![r].code_output = res.value]
               /\ frame' = [frame EXCEPT ![r] = [code_output |-> res.value]]
               /\ trace' = [trace EXCEPT ![r] =
                    Append(Ended(@, "returned", reply, << >>), Issue("explanation"))]
               /\ pc' = [pc EXCEPT ![r] = "Explaining"]
               /\ UNCHANGED <<outcome, http>>
          ELSE Fail(r, res.message, reply)
    /\ UNCHANGED <<clock, minted, mode, args, request>>
    /\ UNCHANGED <<environ, app, orchestrator, health>>

\* ExplainReturns, were a failed explanation tried a second time.
ExplainReturnsRetry(r) ==
    /\ pc[r] = "Explaining"
    /\ \E reply \in LineReplies :
          LET res == ExplainCode(mode[r], frame[r].code_output, reply) IN
          IF res.ok
          THEN /\ locals' = [locals EXCEPT ![r].line_output = res.value]
               /\ frame' = [frame EXCEPT ![r] = [line_output |-> res.value]]
               /\ trace' = [trace EXCEPT ![r] =
                    Append(Ended(@, "returned", reply, << >>), Issue("chunking"))]
               /\ pc' = [pc EXCEPT ![r] = "Chunking"]
               /\ UNCHANGED <<outcome, http>>
          ELSE IF Len(trace[r]) = 2
          THEN /\ trace' = [trace EXCEPT ![r] =
                    Append(Ended(@, "raised", reply, res.message),
                           Issue("explanation"))]
               /\ UNCHANGED <<pc, locals, frame, outcome, http>>
          ELSE Fail(r, res.message, reply)
    /\ UNCHANGED <<clock, minted, mode, args, request>>
    /\ UNCHANGED <<environ, app, orchestrator, health>>

\* ExplainReturns, were the date assigned the wrong way round: the model's
\* date written into code_output instead of code_output's into the output.
ExplainReturnsWritesInput(r) ==
    /\ pc[r] = "Explaining"
    /\ \E reply \in LineReplies :
          LET res == ExplainCode(mode[r], frame[r].code_output, reply)
              got == Extract(LineExplanationOutputFields, reply)
          IN
          IF res.ok
          THEN /\ locals' = [locals EXCEPT
                               ![r].line_output = res.value,
                               ![r].code_output.date = got.value.date]
               /\ frame' = [frame EXCEPT ![r] = [line_output |-> res.value]]
               /\ trace' = [trace EXCEPT ![r] =
                    Append(Ended(@, "returned", reply, << >>), Issue("chunking"))]
               /\ pc' = [pc EXCEPT ![r] = "Chunking"]
               /\ UNCHANGED <<outcome, http>>
          ELSE Fail(r, res.message, reply)
    /\ UNCHANGED <<clock, minted, mode, args, request>>
    /\ UNCHANGED <<environ, app, orchestrator, health>>

\* The external call of step 2 ends; on success step 3, chunk_code(
\* line_output), runs up to its external call.
ExplainReturns(r) ==
    /\ pc[r] = "Explaining"
    /\ \E reply \in LineReplies :
          LET res == ExplainCode(mode[r], frame[r].code_output, reply) IN
          IF res.ok
          THEN /\ locals' = [locals EXCEPT ![r].line_output = res.value]
               /\ frame' = [frame EXCEPT ![r] = [line_output |-> res.value]]
               /\ trace' = [trace EXCEPT ![r] =
                    Append(Ended(@, "returned", reply, << >>), Issue("chunking"))]
               /\ pc' = [pc EXCEPT ![r] = "Chunking"]
               /\ UNCHANGED <<outcome, http>>
          ELSE Fail(r, res.message, reply)
    /\ UNCHANGED <<clock, minted, mode, args, request>>
    /\ UNCHANGED <<environ, app, orchestrator, health>>

\* ChunkReturns, were a failure of step 3 answered with what the first two
\* steps produced, under status "partial".
ChunkReturnsPartial(r) ==
    /\ pc[r] = "Chunking"
    /\ \E reply \in ChunkReplies :
          LET res == ChunkCode(mode[r], frame[r].line_output, reply) IN
          /\ \E h \in TwoDecimals(clock - locals[r].start_time) :
                outcome' = [outcome EXCEPT ![r] =
                   Returned([OrchestratorResponse(
                                locals[r].request_id, locals[r].code_output,
                                locals[r].line_output,
                                IF res.ok THEN res.value ELSE None, h)
                             EXCEPT !.status =
                                IF res.ok THEN "success" ELSE "partial"])]
          /\ http' = [http EXCEPT ![r] = Answered(@, outcome'[r])]
          /\ trace' = [trace EXCEPT ![r] =
                IF res.ok THEN Ended(@, "returned", reply, << >>)
                ELSE Ended(@, "raised", reply, res.message)]
          /\ locals' = [locals EXCEPT ![r] = None]
          /\ frame' = [frame EXCEPT ![r] = None]
          /\ pc' = [pc EXCEPT ![r] = "Completed"]
    /\ UNCHANGED <<clock, minted, mode, args, request>>
    /\ UNCHANGED <<environ, app, orchestrator, health>>

\* ChunkReturns, were the two timestamps subtracted the wrong way round.
ChunkReturnsReversed(r) ==
    /\ pc[r] = "Chunking"
    /\ \E reply \in ChunkReplies :
          LET res == ChunkCode(mode[r], frame[r].line_output, reply) IN
          IF res.ok
          THEN /\ \E h \in TwoDecimals(locals[r].start_time - clock) :
                     outcome' = [outcome EXCEPT ![r] =
                        Returned(OrchestratorResponse(
                            locals[r].request_id, locals[r].code_output,
                            locals[r].line_output, res.value, h))]
               /\ http' = [http EXCEPT ![r] = Answered(@, outcome'[r])]
               /\ trace' = [trace EXCEPT ![r] = Ended(@, "returned", reply, << >>)]
               /\ locals' = [locals EXCEPT ![r] = None]
               /\ frame' = [frame EXCEPT ![r] = None]
               /\ pc' = [pc EXCEPT ![r] = "Completed"]
          ELSE Fail(r, res.message, reply)
    /\ UNCHANGED <<clock, minted, mode, args, request>>
    /\ UNCHANGED <<environ, app, orchestrator, health>>

\* The external call of step 3 ends; on success the response is built and
\* returned.
ChunkReturns(r) ==
    /\ pc[r] = "Chunking"
    /\ \E reply \in ChunkReplies :
          LET res == ChunkCode(mode[r], frame[r].line_output, reply) IN
          IF res.ok
          THEN /\ \E h \in TwoDecimals(clock - locals[r].start_time) :
                     outcome' = [outcome EXCEPT ![r] =
                        Returned(OrchestratorResponse(
                            locals[r].request_id, locals[r].code_output,
                            locals[r].line_output, res.value, h))]
               /\ http' = [http EXCEPT ![r] = Answered(@, outcome'[r])]
               /\ trace' = [trace EXCEPT ![r] = Ended(@, "returned", reply, << >>)]
               /\ locals' = [locals EXCEPT ![r] = None]
               /\ frame' = [frame EXCEPT ![r] = None]
               /\ pc' = [pc EXCEPT ![r] = "Completed"]
          ELSE Fail(r, res.message, reply)
    /\ UNCHANGED <<clock, minted, mode, args, request>>
    /\ UNCHANGED <<environ, app, orchestrator, health>>

Next ==
    \/ Tick
    \/ \E r \in Calls : Begin(r)
    \/ \E r \in Calls : CallGenerate(r)
    \/ \E r \in Calls : GenerateReturns(r)
    \/ \E r \in Calls : ExplainReturns(r)
    \/ \E r \in Calls : ChunkReturns(r)

Spec == Init /\ [][Next]_vars

-----------------------------------------------------------------------------
(* The application serving requests (server.py).                           *)

\* The process before server.py is imported, with or without the
\* credential in its environment.
ServerInit ==
    /\ clock = 0
    /\ minted = << >>
    /\ pc = [r \in Calls |-> "Idle"]
    /\ mode = [r \in Calls |-> "none"]
    /\ args = [r \in Calls |-> None]
    /\ request = [r \in Calls |-> None]
    /\ locals = [r \in Calls |-> None]
    /\ frame = [r \in Calls |-> None]
    /\ trace = [r \in Calls |-> << >>]
    /\ outcome = [r \in Calls |-> None]
    /\ environ \in {"", ApiKey}
    /\ app = "unloaded"
    /\ orchestrator = None
    /\ http = [r \in Calls |-> None]
    /\ health = None

\* The import of server.py: without the credential it raises
\* EnvironmentError, with it the orchestrator is made and the application
\* serves.
Load ==
    /\ app = "unloaded"
    /\ IF environ = ""
       THEN /\ app' = "EnvironmentError"
            /\ UNCHANGED orchestrator
       ELSE /\ app' = "serving"
            /\ orchestrator' = OrchestratorAgent(DefaultModelId)
    /\ UNCHANGED <<clock, minted, pc, mode, args, request, locals, frame,
                   trace, outcome, environ, http, health>>

\* Post, were the request_id minted before the prompt is looked at.
PostMintsFirst(r) ==
    /\ app = "serving"
    /\ pc[r] = "Idle"
    /\ r > 1 => pc[r - 1] # "Idle"
    /\ \E body \in Bodies :
          IF InvalidFields(body) # {}
          THEN /\ http' = [http EXCEPT ![r] =
                     [body |-> body,
                      response |-> RequestValidationError(InvalidFields(body))]]
               /\ pc' = [pc EXCEPT ![r] = "Rejected"]
               /\ UNCHANGED <<minted, mode, args, request, locals>>
          ELSE IF PromptIsEmpty(CodeGenerationRequest(body).prompt)
          THEN /\ http' = [http EXCEPT ![r] =
                     [body |-> body,
                      response |->
                         Reraise(
                           HTTPException(400, <<"Prompt cannot be empty">>))]]
               /\ pc' = [pc EXCEPT ![r] = "Rejected"]
               /\ minted' = Append(minted, Uuid4(minted))
               /\ UNCHANGED <<mode, args, request, locals>>
          ELSE /\ http' = [http EXCEPT ![r] =
                     [body |-> body, response |-> None]]
               /\ mode' = [mode EXCEPT ![r] = "async"]
               /\ args' = [args EXCEPT ![r] = body]
               /\ request' = [request EXCEPT ![r] = CodeGenerationRequest(body)]
               /\ locals' = [locals EXCEPT ![r] =
                               [start_time |-> clock,
                                request_id |-> Uuid4(minted),
                                code_output |-> None,
                                line_output |-> None]]
               /\ minted' = Append(minted, Uuid4(minted))
               /\ pc' = [pc EXCEPT ![r] = "Created"]
    /\ UNCHANGED <<clock, frame, trace, outcome>>
    /\ UNCHANGED <<environ, app, orchestrator, health>>

\* POST /api/v1/generate, the r-th request: FastAPI answers 422 to a body
\* the request schema rejects; generate_educational_code answers 400 to an
\* empty prompt and else awaits orchestrator.aprocess_request(request),
\* which sets start_time and request_id.
Post(r) ==
    /\ app = "serving"
    /\ pc[r] = "Idle"
    /\ r > 1 => pc[r - 1] # "Idle"
    /\ \E body \in Bodies :
          IF InvalidFields(body) # {}
          THEN /\ http' = [http EXCEPT ![r] =
                     [body |-> body,
                      response |-> RequestValidationError(InvalidFields(body))]]
               /\ pc' = [pc EXCEPT ![r] = "Rejected"]
               /\ UNCHANGED <<minted, mode, args, request, locals>>
          ELSE IF PromptIsEmpty(CodeGenerationRequest(body).prompt)
          THEN /\ http' = [http EXCEPT ![r] =
                     [body |-> body,
                      response |->
                         Reraise(
                           HTTPException(400, <<"Prompt cannot be empty">>))]]
               /\ pc' = [pc EXCEPT ![r] = "Rejected"]
               /\ UNCHANGED <<minted, mode, args, request, locals>>
          ELSE /\ http' = [http EXCEPT ![r] =
                     [body |-> body, response |-> None]]
               /\ mode' = [mode EXCEPT ![r] = "async"]
               /\ args' = [args EXCEPT ![r] = body]
               /\ request' = [request EXCEPT ![r] = CodeGenerationRequest(body)]
               /\ locals' = [locals EXCEPT ![r] =
                               [start_time |-> clock,
                                request_id |-> Uuid4(minted),
                                code_output |-> None,
                                line_output |-> None]]
               /\ minted' = Append(minted, Uuid4(minted))
               /\ pc' = [pc EXCEPT ![r] = "Created"]
    /\ UNCHANGED <<clock, frame, trace, outcome>>
    /\ UNCHANGED <<environ, app, orchestrator, health>>

ServerNext ==
    \/ Tick
    \/ Load
    \/ \E r \in Calls : Post(r)
    \/ \E r \in Calls : CallGenerate(r)
    \/ \E r \in Calls : GenerateReturns(r)
    \/ \E r \in Calls : ExplainReturns(r)
    \/ \E r \in Calls : ChunkReturns(r)

ServerSpec == ServerInit /\ [][ServerNext]_vars

\* The credential is taken out of the environment of the process.
Unsetenv ==
    /\ environ # ""
    /\ environ' = ""
    /\ UNCHANGED <<clock, minted, pc, mode, args, request, locals, frame,
                   trace, outcome, app, orchestrator, http, health>>

\* Health, were api_key_configured what the check at import had found.
HealthAsAtImport ==
    /\ app = "serving"
    /\ health' =
          JSONResponse(
            [status |-> "healthy",
             timestamp |-> IsoFormat(clock),
             service |-> "educational-multi-agent-system",
             version |-> "1.0.0",
             agents |-> [orchestrator |-> orchestrator.model_id,
                         total_agents |-> 3],
             api_key_configured |-> TRUE])
    /\ UNCHANGED <<clock, minted, pc, mode, args, request, locals, frame,
                   trace, outcome, environ, app, orchestrator, http>>

\* GET /health: health_check.
Health ==
    /\ app = "serving"
    /\ health' =
          JSONResponse(
            [status |-> "healthy",
             timestamp |-> IsoFormat(clock),
             service |-> "educational-multi-agent-system",
             version |-> "1.0.0",
             agents |-> [orchestrator |-> orchestrator.model_id,
                         total_agents |-> 3],
             api_key_configured |-> environ # ""])
    /\ UNCHANGED <<clock, minted, pc, mode, args, request, locals, frame,
                   trace, outcome, environ, app, orchestrator, http>>

\* The POST request in progress while GET /health is served.
Probed == {1}

HealthNext ==
    \/ Tick
    \/ Load
    \/ Unsetenv
    \/ Health
    \/ \E r \in Probed : Post(r)
    \/ \E r \in Probed : CallGenerate(r)
    \/ \E r \in Probed : GenerateReturns(r)
    \/ \E r \in Probed : ExplainReturns(r)
    \/ \E r \in Probed : ChunkReturns(r)

HealthSpec == ServerInit /\ [][HealthNext]_vars

\* The application when the event loop runs every coroutine that can run
\* and every external call that was issued comes back, with a result or
\* with an error.
FairSpec ==
    /\ ServerSpec
    /\ \A r \in Calls :
          /\ WF_vars(CallGenerate(r))
          /\ WF_vars(GenerateReturns(r))
          /\ WF_vars(ExplainReturns(r))
          /\ WF_vars(ChunkReturns(r))

-----------------------------------------------------------------------------
(* The instruction of the explanation stage (core/line_explainer.py).      *)

\* The longest code text the instruction is built for.
MaxCodeLen == 4

\* The code texts: characters, spaces and line breaks.
CodeTexts == UNION {[1..n -> {"a", " ", NL}] : n \in 0..MaxCodeLen}

\* The three backquotes that open and close the code in the instruction.
Fence == "~~~"

\* "\n".join(parts)
RECURSIVE Join(_)
Join(parts) ==
    IF parts = << >> THEN << >>
    ELSE IF Len(parts) = 1 THEN parts[1]
    ELSE parts[1] \o <<NL>> \o Join(Tail(parts))

\* LineExplainerAgent._build_prompt
build_prompt(code_output) ==
    LET lines == Split(code_output.code) IN
    Join(<< <<"Analyze this ", code_output.language,
              " code and provide line-by-line educational explanations:">>,
            << >>,
            <<"Code to explain:">>,
            <<Fence, code_output.language>>,
            code_output.code,
            <<Fence>>,
            << >>,
            <<"For each line of code:">>,
            <<"1. Identify the line number (starting from 1)">>,
            <<"2. Extract the exact code from that line">>,
            <<"3. Provide an educational explanation (or null for blank/empty lines)">>,
            << >>,
            <<"Important guidelines:">>,
            <<"- Blank lines or lines with only whitespace should have line_explanation set to null">>,
            <<"- Explain WHY the code does something, not just WHAT it does">>,
            <<"- Use beginner-friendly language">>,
            <<"- Break down complex concepts into simple terms">>,
            <<"- Focus on teaching and helping learners understand">>,
            << >>,
            <<"Also provide an overall explanation of what the entire code does.">>,
            << >>,
            <<"The code has ", ToString(Len(lines)), " line(s) total.">> >>)

\* The explanation stage holds the output of the generation stage, of
\* whatever code text.
PromptInit ==
    /\ clock = 0
    /\ minted = << >>
    /\ pc = [r \in Calls |-> "Idle"]
    /\ mode = [r \in Calls |-> "none"]
    /\ args = [r \in Calls |-> None]
    /\ request = [r \in Calls |-> None]
    /\ locals = [r \in Calls |-> None]
    /\ \E text \in CodeTexts, l \in Languages :
          frame = [r \in Calls |->
                     IF r = 1
                     THEN [code_output |-> [date |-> IsoFormat(0),
                                            language |-> l,
                                            code |-> text]]
                     ELSE None]
    /\ trace = [r \in Calls |-> << >>]
    /\ outcome = [r \in Calls |-> None]
    /\ environ = ApiKey
    /\ app = "unloaded"
    /\ orchestrator = OrchestratorAgent(DefaultModelId)
    /\ http = [r \in Calls |-> None]
    /\ health = None

\* "prompt = self._build_prompt(code_output)" of explain_code and
\* aexplain_code.
BuildPrompt ==
    /\ frame[1] # None
    /\ DOMAIN frame[1] = {"code_output"}
    /\ pc[1] = "Idle"
    /\ frame' = [frame EXCEPT ![1] =
                   [code_output |-> @.code_output,
                    prompt |-> build_prompt(@.code_output)]]
    /\ UNCHANGED <<clock, minted, pc, mode, args, request, locals, trace,
                   outcome, environ, app, orchestrator, http, health>>

PromptNext == BuildPrompt

PromptSpec == PromptInit /\ [][PromptNext]_vars

-----------------------------------------------------------------------------
(* Properties.                                                             *)

\* The most hundredths of a second a call can be seen to take.
MaxHundredths == (MaxClock \div ClockRes) + 1

StageOrder == <<"generation", "explanation", "chunking">>

IsPrefix(p, t) == Len(p) <= Len(t) /\ SubSeq(t, 1, Len(p)) = p
IsSuffix(p, t) == Len(p) <= Len(t) /\ SubSeq(t, Len(t) - Len(p) + 1, Len(t)) = p
Contains(t, p) ==
    \E i \in 0..(Len(t) - Len(p)) : SubSeq(t, i + 1, i + Len(p)) = p

HasReturned(r) == outcome[r] # None /\ outcome[r].kind = "return"
HasRaised(r) == outcome[r] # None /\ outcome[r].kind = "raise"
Last(t) == t[Len(t)]

\* C1: within one call the external calls are issued in the order
\* generation, explanation, chunking, each only after the stage before it
\* has returned (so at most one is in flight, the last one issued), and
\* each stage is given only what the stages before it produced: the request
\* for generation, the generation stage's output for explanation, the
\* explanation stage's output for chunking.
C1_StagesInOrder ==
    \A r \in Calls :
        /\ Len(trace[r]) <= 3
        /\ \A i \in 1..Len(trace[r]) :
              /\ trace[r][i].stage = StageOrder[i]
              /\ i < Len(trace[r]) => trace[r][i].end = "returned"
        /\ pc[r] = "Generating" =>
              /\ Len(trace[r]) = 1 /\ Last(trace[r]).end = "pending"
              /\ DOMAIN frame[r] = {"request", "current_date"}
              /\ frame[r].request = request[r]
              /\ locals[r].code_output = None /\ locals[r].line_output = None
        /\ pc[r] = "Explaining" =>
              /\ Len(trace[r]) = 2 /\ Last(trace[r]).end = "pending"
              /\ DOMAIN frame[r] = {"code_output"}
              /\ frame[r].code_output = locals[r].code_output
              /\ locals[r].code_output # None /\ locals[r].line_output = None
        /\ pc[r] = "Chunking" =>
              /\ Len(trace[r]) = 3 /\ Last(trace[r]).end = "pending"
              /\ DOMAIN frame[r] = {"line_output"}
              /\ frame[r].line_output = locals[r].line_output
              /\ locals[r].line_output # None

\* A call of each kind has its chunking call in flight after the other two
\* stages returned.
C1_Witness ==
    /\ mode[1] = "sync" /\ mode[2] = "async"
    /\ \A r \in Calls :
          /\ pc[r] = "Chunking"
          /\ trace[r][1].end = "returned" /\ trace[r][2].end = "returned"

\* C2: every stage is invoked at most once per call, and a call that fails
\* at stage k has issued exactly k external calls: the first k - 1 returned,
\* the k-th raised, and nothing was called after it.
C2_NoRetryNoFurtherCall ==
    \A r \in Calls :
        /\ \A i, j \in 1..Len(trace[r]) :
              trace[r][i].stage = trace[r][j].stage => i = j
        /\ (HasRaised(r) \/ pc[r] = "Failed") =>
              /\ Len(trace[r]) \in 1..3
              /\ Last(trace[r]).end = "raised"
              /\ Last(trace[r]).stage = StageOrder[Len(trace[r])]
              /\ \A i \in 1..(Len(trace[r]) - 1) : trace[r][i].end = "returned"
        /\ \A i \in 1..Len(trace[r]) :
              trace[r][i].end = "raised" => i = Len(trace[r]) /\ HasRaised(r)

\* One call failed at stage 2 after two external calls, the other at stage 3
\* after three.
C2_Witness ==
    /\ HasRaised(1) /\ Len(trace[1]) = 2
    /\ HasRaised(2) /\ Len(trace[2]) = 3

\* C3: a call returns a response only if all three stages returned; every
\* response has status "success" and carries the three stage outputs; a
\* call in which a stage raised gives its caller an error and nothing else.
C3_AllOrNothing ==
    \A r \in Calls :
        /\ HasReturned(r) =>
              /\ Len(trace[r]) = 3
              /\ \A i \in 1..3 : trace[r][i].end = "returned"
              /\ outcome[r].value.status = "success"
              /\ outcome[r].value.generated_code # None
              /\ outcome[r].value.line_explanations # None
              /\ outcome[r].value.chunked_code # None
        /\ (\E i \in 1..Len(trace[r]) : trace[r][i].end = "raised") =>
              /\ outcome[r] # None
              /\ DOMAIN outcome[r] = {"kind", "message"}
              /\ outcome[r].kind = "raise"
        /\ pc[r] \in {"Completed", "Failed"} <=> outcome[r] # None

\* One call returned a response, the other failed in its last stage.
C3_Witness ==
    /\ HasReturned(1)
    /\ HasRaised(2) /\ Len(trace[2]) = 3

\* The steps a call may take.
C4_Step(from, to) ==
    \/ from = "Idle" /\ to = "Created"
    \/ from = "Created" /\ to = "Generating"
    \/ from = "Generating" /\ to \in {"Explaining", "Failed"}
    \/ from = "Explaining" /\ to \in {"Chunking", "Failed"}
    \/ from = "Chunking" /\ to \in {"Completed", "Failed"}

\* C4: a call moves Created -> Generating -> Explaining -> Chunking ->
\* Completed, or from one of the three stages to Failed when that stage
\* raises; once Completed or Failed it takes no further step, issues no
\* external call and keeps its outcome.
C4_StateMachine ==
    [][\A r \in Calls :
          /\ pc'[r] # pc[r] => C4_Step(pc[r], pc'[r])
          /\ (pc'[r] # pc[r] /\ pc'[r] = "Failed") =>
                /\ Last(trace'[r]).end = "raised"
                /\ Last(trace'[r]).stage =
                      CASE pc[r] = "Generating" -> "generation"
                        [] pc[r] = "Explaining" -> "explanation"
                        [] pc[r] = "Chunking" -> "chunking"
          /\ pc[r] \in {"Completed", "Failed"} =>
                /\ pc'[r] = pc[r]
                /\ trace'[r] = trace[r]
                /\ outcome'[r] = outcome[r]]_vars

\* One call is Completed and the other went from Explaining to Failed, with
\* time still to pass.
C4_Witness ==
    /\ pc[1] = "Completed"
    /\ pc[2] = "Failed" /\ Last(trace[2]).stage = "explanation"
    /\ clock < MaxClock

\* What the external model replied at stage i of call r.
ReplyContent(r, i) == trace[r][i].reply.content

\* C5: in every response the three languages are the same and are the
\* request's language, which is "python" when the caller gave none,
\* whatever languages the external model replied with.
C5_LanguagePinned ==
    \A r \in Calls :
        HasReturned(r) =>
            LET v == outcome[r].value
                wanted == IF args[r].language = Omitted THEN "python"
                          ELSE args[r].language
            IN  /\ v.generated_code.language = wanted
                /\ v.line_explanations.language = wanted
                /\ v.chunked_code.language = wanted
                /\ request[r].language = wanted

\* A response to a call that gave no language, the external model having
\* replied "javascript" at every stage, and a response to a call that asked
\* for "javascript", the external model having replied "python" every time.
C5_Witness ==
    /\ HasReturned(1) /\ args[1].language = Omitted
    /\ \A i \in 1..3 : ReplyContent(1, i).language = "javascript"
    /\ HasReturned(2) /\ args[2].language = "javascript"
    /\ \A i \in 1..3 : ReplyContent(2, i).language = "python"

\* C6: in every response the dates of the explanation and chunking outputs
\* are the date of the generation output, whatever dates the external model
\* replied with at those two stages.
C6_DatePinned ==
    \A r \in Calls :
        HasReturned(r) =>
            LET v == outcome[r].value IN
            /\ v.line_explanations.date = v.generated_code.date
            /\ v.chunked_code.date = v.generated_code.date

\* A response whose date is none of the dates the external model replied
\* with at the explanation and chunking stages.
C6_Witness ==
    \E r \in Calls :
        /\ HasReturned(r)
        /\ ReplyContent(r, 2).date # outcome[r].value.generated_code.date
        /\ ReplyContent(r, 3).date # outcome[r].value.generated_code.date
        /\ ReplyContent(r, 2).date # ReplyContent(r, 3).date

\* C7: in every response the overall explanation of the chunking output is
\* that of the explanation output, whatever overall explanation the external
\* model replied with at the chunking stage.
C7_ExplanationPinned ==
    \A r \in Calls :
        HasReturned(r) =>
            /\ outcome[r].value.chunked_code.explanation =
                  outcome[r].value.line_explanations.explanation
            /\ outcome[r].value.line_explanations.explanation =
                  ReplyContent(r, 2).explanation

\* A response whose overall explanation differs from the one the external
\* model replied with at the chunking stage.
C7_Witness ==
    \E r \in Calls :
        /\ HasReturned(r)
        /\ ReplyContent(r, 3).explanation #
              outcome[r].value.chunked_code.explanation

\* C8: every call mints its request_id when it begins, before its first
\* external call; no two calls, returned, failed or still running, have the
\* same one; and the request_id of a response is the one its own call
\* minted.
C8_FreshRequestId ==
    /\ Len(minted) = Cardinality({r \in Calls : pc[r] # "Idle"})
    /\ \A i, j \in 1..Len(minted) : minted[i] = minted[j] => i = j
    /\ \A r \in Calls :
          /\ trace[r] # << >> => r <= Len(minted)
          /\ locals[r] # None => locals[r].request_id = minted[r]
          /\ HasReturned(r) => outcome[r].value.request_id = minted[r]
          /\ \A q \in Calls :
                (q # r /\ locals[r] # None /\ locals[q] # None) =>
                    locals[r].request_id # locals[q].request_id
          /\ \A q \in Calls :
                (q # r /\ HasReturned(r) /\ HasReturned(q)) =>
                    outcome[r].value.request_id # outcome[q].value.request_id

\* Both calls returned a response, each with the identifier minted for it.
C8_Witness ==
    /\ HasReturned(1) /\ HasReturned(2)
    /\ outcome[1].value.request_id = minted[1]
    /\ outcome[2].value.request_id = minted[2]

\* C9: a call in which a stage raises ends with one error: its message
\* holds the time from the call's start_time to the failure, to two
\* decimals, and ends with the text of the error the stage raised; the
\* outcome is never replaced.
C9_OneErrorWithElapsedAndCause ==
    [][\A r \in Calls :
          /\ (outcome[r] = None /\ outcome'[r] # None /\ HasRaised(r)') =>
                /\ Last(trace'[r]).end = "raised"
                /\ Last(trace'[r]).error # << >>
                /\ IsSuffix(Last(trace'[r]).error, outcome'[r].message)
                /\ \E h \in TwoDecimals(clock' - locals[r].start_time) :
                      Contains(outcome'[r].message, <<Format2f(h), "s: ">>)
                /\ \A h \in 0..MaxHundredths :
                      Contains(outcome'[r].message, <<Format2f(h), "s: ">>)
                          => h \in TwoDecimals(clock' - locals[r].start_time)
          /\ outcome[r] # None => outcome'[r] = outcome[r]]_vars

\* A call failed one hundredth of a second after it began and says so.
C9_Witness ==
    \E r \in Calls :
        /\ HasRaised(r)
        /\ Contains(outcome[r].message, <<"0.01", "s: ">>)
        /\ IsSuffix(<<"rate limit">>, outcome[r].message)

\* C10: when the explanation stage raises after generation returned, the
\* call ends with one error whose message is the orchestrator's prefix, the
\* elapsed time and then the explanation stage's error, which starts with
\* the explanation stage's prefix; the chunking stage is not called and the
\* caller gets no stage output.
C10_ExplanationFailure ==
    \A r \in Calls :
        (Len(trace[r]) >= 2 /\ trace[r][2].end = "raised") =>
            /\ trace[r][1].end = "returned"
            /\ Len(trace[r]) = 2
            /\ pc[r] = "Failed"
            /\ HasRaised(r)
            /\ DOMAIN outcome[r] = {"kind", "message"}
            /\ \E h \in 0..MaxHundredths :
                  LET own == IF mode[r] = "async"
                             THEN <<"Async ", "orchestration failed after ">>
                             ELSE <<"Orchestration failed after ">>
                      stage == IF mode[r] = "async"
                               THEN <<"Async ", "line explanation failed: ">>
                               ELSE <<"Line explanation failed: ">>
                  IN  IsPrefix(own \o <<Format2f(h), "s: ">> \o stage,
                               outcome[r].message)

\* A synchronous and an asynchronous call both failed in the explanation
\* stage.
C10_Witness ==
    /\ mode[1] = "sync" /\ mode[2] = "async"
    /\ \A r \in Calls :
          /\ HasRaised(r)
          /\ Len(trace[r]) = 2 /\ trace[r][2].end = "raised"

-----------------------------------------------------------------------------
(* Properties of the application.                                          *)

HasPrompt(body) == "prompt" \in DOMAIN body
\* The prompt is "" or made of whitespace only.
Blank(text) == \A i \in 1..Len(text) : IsSpace(text[i])
IsAnswered(r) == http[r] # None /\ http[r].response # None
Status(r) == http[r].response.status_code

\* C11: a POST whose prompt is "" or whitespace only is answered 400, one
\* whose body has no prompt is answered 422, and one whose prompt is not
\* empty after trimming is never answered 400 or 422.
C11_PromptValidation ==
    \A r \in Calls :
        http[r] # None =>
            LET body == http[r].body IN
            /\ ~HasPrompt(body) => IsAnswered(r) /\ Status(r) = 422
            /\ (HasPrompt(body) /\ Blank(body.prompt)) =>
                  IsAnswered(r) /\ Status(r) = 400
            /\ (HasPrompt(body) /\ ~Blank(body.prompt) /\ IsAnswered(r)) =>
                  Status(r) \notin {400, 422}

\* A prompt of three spaces was answered 400, and a prompt with text
\* between whitespace was answered 200.
C11_Witness ==
    /\ IsAnswered(1) /\ Status(1) = 400
    /\ http[1].body.prompt = <<" ", " ", " ">>
    /\ IsAnswered(2) /\ Status(2) = 200
    /\ http[2].body.prompt = <<" ", "add", " ", "two", NL>>

\* C12: when the orchestrator raises while a POST is served, whichever
\* stage failed, the request is answered 500 (not 200, 400 or 422) and the
\* detail of the answer contains the text of the orchestrator's error.
C12_FailureIs500 ==
    \A r \in Calls :
        (http[r] # None /\ (HasRaised(r) \/ pc[r] = "Failed")) =>
            /\ HasRaised(r)
            /\ IsAnswered(r)
            /\ Status(r) = 500
            /\ Contains(http[r].response.detail, outcome[r].message)

\* One POST failed in its chunking stage and the other in its generation
\* stage, and both were answered.
C12_Witness ==
    /\ \A r \in Calls : IsAnswered(r) /\ HasRaised(r)
    /\ Last(trace[1]).stage = "chunking"
    /\ Last(trace[2]).stage = "generation"

\* The words a stage puts before the message of what it caught.
PrefixOf(stage, m) ==
    IF stage = "generation" THEN GenerationFailed(m)
    ELSE IF stage = "explanation" THEN ExplanationFailed(m)
    ELSE ChunkingFailed(m)

\* C13 as stated: when a stage raises, the POST is answered 500 with a
\* message "<stage-kind> failed: <underlying message>" that starts with the
\* prefix of the stage that failed (in either wording of that prefix).
C13_StartsWithFailedStage ==
    \A r \in Calls :
        (http[r] # None /\ HasRaised(r)) =>
            /\ IsAnswered(r) /\ Status(r) = 500
            /\ \E m \in Modes :
                  IsPrefix(PrefixOf(Last(trace[r]).stage, m),
                           http[r].response.detail)

\* C13, amended: when a stage raises, the POST is answered 500 with a
\* message that starts with "Code generation failed: " whichever stage
\* failed, and ends with "Async <stage-kind> failed: <underlying message>"
\* of the stage that failed, the orchestrator's own prefix and the elapsed
\* time standing between the two.
C13_EndsWithFailedStage ==
    \A r \in Calls :
        (http[r] # None /\ HasRaised(r)) =>
            LET failed == Last(trace[r])
                detail == http[r].response.detail
            IN  /\ IsAnswered(r) /\ Status(r) = 500
                /\ failed.end = "raised"
                /\ IsPrefix(<<"Code generation failed: ",
                              "Async ", "orchestration failed after ">>, detail)
                /\ IsPrefix(PrefixOf(failed.stage, "async"), failed.error)
                /\ Len(failed.error) > Len(PrefixOf(failed.stage, "async"))
                /\ IsSuffix(<<"s: ">> \o failed.error, detail)
                /\ failed.reply.kind = "raise" =>
                      failed.error =
                         PrefixOf(failed.stage, "async") \o failed.reply.text

\* A POST whose explanation stage raised was answered, and another whose
\* chunking stage raised.
C13_Witness ==
    /\ \A r \in Calls : IsAnswered(r) /\ HasRaised(r)
    /\ Last(trace[1]).stage = "explanation"
    /\ Last(trace[2]).stage = "chunking"
    /\ Last(trace[2]).reply.kind = "raise"

-----------------------------------------------------------------------------
(* Properties of the response.                                             *)

\* h hundredths of a second is e clock units to the nearest hundredth.
IsNearest(h, e) ==
    /\ 2 * (h * ClockRes - e) <= ClockRes
    /\ 2 * (e - h * ClockRes) <= ClockRes

\* C14: start_time is read when the call begins, before any external call
\* is issued, and is not changed afterwards; a response is built only when
\* the third of exactly three external calls has returned, and its
\* processing_time_seconds is not negative and is the time from start_time
\* to that moment, to the hundredth of a second the field is rounded to.
C14_ProcessingTime ==
    [][\A r \in Calls :
          /\ (locals[r] = None /\ locals'[r] # None) =>
                /\ locals'[r].start_time = clock
                /\ trace'[r] = << >>
          /\ (locals[r] # None /\ locals'[r] # None) =>
                locals'[r].start_time = locals[r].start_time
          /\ (outcome[r] = None /\ outcome'[r] # None
                /\ outcome'[r].kind = "return") =>
                LET h == outcome'[r].value.processing_time_seconds IN
                /\ h >= 0
                /\ locals[r] # None
                /\ IsNearest(h, clock' - locals[r].start_time)
                /\ Len(trace[r]) = 3 /\ Len(trace'[r]) = 3
                /\ trace[r][3].end = "pending"
                /\ \A i \in 1..3 :
                      /\ trace'[r][i].stage = StageOrder[i]
                      /\ trace'[r][i].end = "returned"
      ]_vars

\* An asynchronous call that began at time 0 returned a response at the
\* last reading of the clock, with a processing time above zero.
C14_Witness ==
    /\ mode[1] = "async" /\ HasReturned(1)
    /\ clock = MaxClock
    /\ pc[2] = "Idle"
    /\ outcome[1].value.processing_time_seconds > 0

Response(r) == outcome[r].value

\* C15: in every response returned, an entry of line_explanations.code
\* whose line_code is empty or whitespace only has no line_explanation.
C15_BlankLinesUnexplained ==
    \A r \in Calls :
        HasReturned(r) =>
            LET lines == Response(r).line_explanations.code IN
            \A i \in 1..Len(lines) :
                Blank(lines[i].line_code) => lines[i].line_explanation = NoStr

\* The line ranges of chunks go up from 1: the first chunk starts at line
\* 1, no chunk ends before it starts, and no chunk starts or ends before
\* the chunk ahead of it does.
RangesAscendFromOne(chunks) ==
    /\ chunks # << >> => chunks[1].first_line = 1
    /\ \A i \in 1..Len(chunks) : chunks[i].first_line <= chunks[i].last_line
    /\ \A i \in 1..(Len(chunks) - 1) :
          /\ chunks[i].first_line <= chunks[i + 1].first_line
          /\ chunks[i].last_line <= chunks[i + 1].last_line

-----------------------------------------------------------------------------
(* Properties of requests served at the same time.                         *)

\* What belongs to call r.
Own(r) == <<mode[r], args[r], request[r], locals[r], frame[r], trace[r],
            outcome[r], http[r]>>

\* C17: whatever the interleaving of the requests served with the one
\* orchestrator, a step of one request leaves everything of the other
\* untouched, and each stage output and the response of a request are made
\* of that request's own values only: the language of its request, the
\* date of its generation stage, the explanation of its explanation stage,
\* the code, lines and chunks its own external calls returned, and its own
\* request_id.
C17_OwnValuesOnly ==
    [][\A r \in Calls :
          /\ \A q \in Calls \ {r} : pc'[q] # pc[q] => Own(r)' = Own(r)
          /\ (pc[r] = "Generating" /\ pc'[r] = "Explaining") =>
                LET out == locals'[r].code_output
                    got == trace'[r][1].reply.content
                IN  /\ out.language = request[r].language
                    /\ out.date = IF got.date = "" THEN frame[r].current_date
                                  ELSE got.date
                    /\ out.code = got.code
                    /\ frame'[r] = [code_output |-> out]
          /\ (pc[r] = "Explaining" /\ pc'[r] = "Chunking") =>
                LET out == locals'[r].line_output
                    got == trace'[r][2].reply.content
                IN  /\ out.language = locals[r].code_output.language
                    /\ out.date = locals[r].code_output.date
                    /\ out.explanation = got.explanation
                    /\ out.code = got.code
                    /\ locals'[r].code_output = locals[r].code_output
                    /\ frame'[r] = [line_output |-> out]
          /\ (pc[r] = "Chunking" /\ pc'[r] = "Completed") =>
                LET resp == outcome'[r].value
                    got == trace'[r][3].reply.content
                IN  /\ resp.request_id = locals[r].request_id
                    /\ \A q \in Calls \ {r} :
                          HasReturned(q) =>
                             Response(q).request_id # resp.request_id
                    /\ resp.generated_code = locals[r].code_output
                    /\ resp.line_explanations = locals[r].line_output
                    /\ resp.chunked_code.language = request[r].language
                    /\ resp.chunked_code.date = locals[r].code_output.date
                    /\ resp.chunked_code.explanation =
                          locals[r].line_output.explanation
                    /\ resp.chunked_code.code = got.code
                    /\ http[r] # None => http'[r].response.content = resp
      ]_vars

\* Two requests were served at the same time, the second answered while
\* the first awaits its chunking stage; they differ in language, date,
\* code and explanation.
C17_Witness ==
    /\ pc[1] = "Chunking" /\ IsAnswered(2) /\ Status(2) = 200
    /\ request[1].language # request[2].language
    /\ locals[1].code_output.date # Response(2).generated_code.date
    /\ locals[1].code_output.code # Response(2).generated_code.code
    /\ locals[1].line_output.explanation #
          Response(2).line_explanations.explanation

InFlight(r) == pc[r] \in {"Created", "Generating", "Explaining", "Chunking"}

\* C18: within a request the stages come one after the other, generation
\* before explanation before chunking, a stage being called only when the
\* one before it has returned; across requests nothing is ordered: a
\* request in progress can always take its next step, wherever the other
\* request stands, also when the other request has failed.
C18_OrderedWithinNotAcross ==
    \A r \in Calls :
        /\ \A i \in 1..Len(trace[r]) :
              /\ trace[r][i].stage = StageOrder[i]
              /\ i < Len(trace[r]) => trace[r][i].end = "returned"
        /\ pc[r] = "Created" => ENABLED CallGenerate(r)
        /\ pc[r] = "Generating" => ENABLED GenerateReturns(r)
        /\ pc[r] = "Explaining" => ENABLED ExplainReturns(r)
        /\ pc[r] = "Chunking" => ENABLED ChunkReturns(r)

\* The request that began second was answered 200 while the one that began
\* first still awaits its first stage.
C18_Witness ==
    /\ pc[1] = "Generating"
    /\ IsAnswered(2) /\ Status(2) = 200

-----------------------------------------------------------------------------
(* Properties of the long-lived state.                                     *)

\* C19: the orchestrator holds its model identifier and its three agents,
\* each made with that identifier, and nothing that belongs to a request;
\* no step of a call of process_request or aprocess_request, whether the
\* call returns or raises, changes any of it.
C19_OrchestratorFixed ==
    [][/\ orchestrator' = orchestrator
       /\ DOMAIN orchestrator' =
             {"model_id", "code_generator", "line_explainer", "code_chunker"}
       /\ \A a \in {"code_generator", "line_explainer", "code_chunker"} :
             orchestrator'[a] = [model_id |-> orchestrator'.model_id]
      ]_vars

\* A call of process_request returned and a call of aprocess_request
\* raised, and the orchestrator is as it was made.
C19_Witness ==
    /\ mode[1] = "sync" /\ HasReturned(1)
    /\ mode[2] = "async" /\ HasRaised(2)
    /\ orchestrator = OrchestratorAgent(DefaultModelId)

\* C20: the application serves only when the import found the credential;
\* GET /health is then answered 200 with status "healthy" and with
\* api_key_configured true when the credential is in the environment, and
\* changes nothing of the orchestrator, of the requests or of the
\* environment; api_key_configured is false only when the credential, there
\* at the import, has been taken out of the environment since.
C20_Health ==
    [][/\ (app = "unloaded" /\ app' # "unloaded") =>
             /\ environ = "" => app' = "EnvironmentError" /\ orchestrator' = None
             /\ environ # "" => app' = "serving" /\ orchestrator' # None
       /\ app' # "serving" => health' = None
       /\ health' # health =>
             /\ app = "serving"
             /\ health'.status_code = 200
             /\ health'.content.status = "healthy"
             /\ health'.content.api_key_configured = (environ # "")
             /\ UNCHANGED <<clock, minted, pc, mode, args, request, locals,
                            frame, trace, outcome, environ, app, orchestrator,
                            http>>
       /\ (health' # None /\ ~health'.content.api_key_configured) =>
             app' = "serving" /\ environ' = ""
      ]_vars

\* GET /health was answered with api_key_configured true while a POST
\* awaits its explanation stage, the credential being in the environment.
C20_Witness ==
    /\ environ = ApiKey
    /\ health # None /\ health.status_code = 200
    /\ health.content.api_key_configured
    /\ health.content.timestamp = IsoFormat(clock)
    /\ pc[1] = "Explaining"

-----------------------------------------------------------------------------
(* Properties of the stages.                                               *)

\* C21: what the generation stage returned is not changed by the
\* explanation and chunking stages, and what the explanation stage
\* returned is not changed by the chunking stage: code_output and
\* line_output stay as they were returned as long as the call runs, and the
\* response carries them field for field, with the code text of the
\* generation reply and the lines and explanation of the explanation reply.
C21_InputsUntouched ==
    [][\A r \in Calls :
          /\ (locals[r] # None /\ locals'[r] # None) =>
                /\ locals[r].code_output # None =>
                      locals'[r].code_output = locals[r].code_output
                /\ locals[r].line_output # None =>
                      locals'[r].line_output = locals[r].line_output
          /\ (pc[r] = "Chunking" /\ pc'[r] = "Completed") =>
                /\ Response(r)'.generated_code = locals[r].code_output
                /\ Response(r)'.generated_code.code = ReplyContent(r, 1).code
                /\ Response(r)'.line_explanations = locals[r].line_output
                /\ Response(r)'.line_explanations.code = ReplyContent(r, 2).code
                /\ Response(r)'.line_explanations.explanation =
                      ReplyContent(r, 2).explanation
      ]_vars

\* A response was returned whose explanation reply bore another date than
\* the generated code has, and whose chunking reply bore another
\* explanation than the line explanations have.
C21_Witness ==
    /\ HasReturned(1)
    /\ Response(1).generated_code.code = <<"a", NL, "b">>
    /\ ReplyContent(1, 2).date # Response(1).generated_code.date
    /\ ReplyContent(1, 3).explanation #
          Response(1).line_explanations.explanation

\* The output of the generation stage of call r, while the call has it.
CodeOutput(r) ==
    IF HasReturned(r) THEN Response(r).generated_code
    ELSE IF locals[r] # None THEN locals[r].code_output
    ELSE None

\* C22: when the external model's output at the generation stage has no
\* timestamp (none given, or an empty one), the stage still returns, with
\* the time read before the external call as the date; a timestamp the
\* model gave is kept; the date of a returned generation stage is never
\* empty.
C22_DateFilledIn ==
    \A r \in Calls :
        (Len(trace[r]) >= 1 /\ trace[r][1].end # "pending"
            /\ trace[r][1].reply.kind # "raise") =>
            LET got == trace[r][1].reply.content
                lacks == "date" \notin DOMAIN got \/ got.date = ""
            IN  /\ (lacks /\ CodeGenerationOutputFields \ {"date"}
                              \subseteq DOMAIN got) =>
                      trace[r][1].end = "returned"
                /\ (trace[r][1].end = "returned" /\ CodeOutput(r) # None) =>
                      /\ CodeOutput(r).date # ""
                      /\ ~lacks => CodeOutput(r).date = got.date
                      /\ lacks => \E t \in 0..clock :
                                     CodeOutput(r).date = IsoFormat(t)

\* The fields the output schema of a stage requires.
FieldsOf(stage) ==
    IF stage = "generation" THEN CodeGenerationOutputFields
    ELSE IF stage = "explanation" THEN LineExplanationOutputFields
    ELSE CodeChunkOutputFields

\* The external model's reply cannot be made into the output of the stage.
Malformed(stage, reply) ==
    reply.kind = "dict" /\ ~(FieldsOf(stage) \subseteq DOMAIN reply.content)

\* C23: a stage that was invoked has issued one external call; when that
\* call raised, or its result could not be made into the stage's output
\* schema, the stage raised one error, the stage's own prefix followed by
\* the underlying message, and gave no output: the call has failed there
\* and nothing was handed on; in every other case the stage returned.
C23_StageFailureWrapped ==
    \A r \in Calls :
        /\ pc[r] = "Generating" => Len(trace[r]) = 1
        /\ pc[r] = "Explaining" => Len(trace[r]) = 2
        /\ pc[r] = "Chunking" => Len(trace[r]) = 3
        /\ \A i \in 1..Len(trace[r]) :
              LET call == trace[r][i] IN
              call.end # "pending" =>
                 IF call.reply.kind = "raise" \/ Malformed(call.stage, call.reply)
                 THEN /\ call.end = "raised"
                      /\ call.error =
                            PrefixOf(call.stage, mode[r]) \o
                            (IF call.reply.kind = "raise" THEN call.reply.text
                             ELSE ValidationError(FieldsOf(call.stage),
                                                  call.reply.content))
                      /\ i = Len(trace[r])
                      /\ pc[r] = "Failed" /\ HasRaised(r)
                      /\ locals[r] = None /\ frame[r] = None
                 ELSE call.end = "returned" /\ call.error = << >>

\* One call failed in chunking on a result that lacks a field of the
\* schema, the other in generation on an external call that raised.
C23_Witness ==
    /\ pc[1] = "Failed" /\ Len(trace[1]) = 3
    /\ Malformed("chunking", trace[1][3].reply)
    /\ pc[2] = "Failed" /\ Len(trace[2]) = 1
    /\ trace[2][1].reply.kind = "raise"

\* C24: the line ranges of the chunks are not looked at: whenever the
\* chunking stage's external call gave a result that fits the schema, the
\* call is Completed with status "success" and the response carries the
\* chunks exactly as the external model gave them, whatever their ranges.
C24_ChunksUnchecked ==
    \A r \in Calls :
        (Len(trace[r]) = 3 /\ trace[r][3].end # "pending"
            /\ trace[r][3].reply.kind # "raise"
            /\ ~Malformed("chunking", trace[r][3].reply)) =>
            /\ pc[r] = "Completed" /\ HasReturned(r)
            /\ Response(r).status = "success"
            /\ Response(r).chunked_code.code = ReplyContent(r, 3).code

\* A response was returned whose first chunk starts at line 2 and ends
\* before it starts, and whose second chunk starts at the same line.
C24_Witness ==
    /\ pc[1] = "Completed" /\ HasReturned(1)
    /\ Response(1).status = "success"
    /\ ~ValidateLineNumbers(Response(1).chunked_code.code)
    /\ ~RangesAscendFromOne(Response(1).chunked_code.code)
    /\ Response(1).chunked_code.code[1].first_line = 2
    /\ Response(1).chunked_code.code[2].first_line = 2

\* The lines are numbered 1, 2, ... in order.
NumberedFromOne(lines) == \A i \in 1..Len(lines) : lines[i].line = i

\* C25: the lines the external model gives at the explanation stage are
\* not held against the lines of the generated code: whenever its result
\* fits the schema the stage returns, the chunking stage is called with
\* those very lines, and the response carries them, however many they are
\* and however they are numbered.
C25_LinesUnreconciled ==
    \A r \in Calls :
        (Len(trace[r]) >= 2 /\ trace[r][2].end # "pending"
            /\ trace[r][2].reply.kind # "raise"
            /\ ~Malformed("explanation", trace[r][2].reply)) =>
            /\ trace[r][2].end = "returned"
            /\ Len(trace[r]) = 3
            /\ pc[r] = "Chunking" =>
                  /\ frame[r].line_output.code = ReplyContent(r, 2).code
                  /\ locals[r].line_output.code = ReplyContent(r, 2).code
            /\ HasReturned(r) =>
                  Response(r).line_explanations.code = ReplyContent(r, 2).code
            /\ (trace[r][3].end = "returned") => HasReturned(r)

\* A response was returned with one explained line, numbered 2, for
\* generated code of two lines.
C25_Witness ==
    /\ pc[1] = "Completed" /\ HasReturned(1)
    /\ Len(Split(Response(1).generated_code.code)) = 2
    /\ Len(Response(1).line_explanations.code) = 1
    /\ ~NumberedFromOne(Response(1).line_explanations.code)

\* The requests the orchestrator was called for.
Orchestrated == {r \in Calls : request[r] # None}

\* C26: a POST answered 400 or 422 never reaches the orchestrator: it has
\* no request, no request_id and no stage call, in that state and in every
\* later one, and the identifiers minted are those of the other requests.
C26_RejectedNeverOrchestrated ==
    /\ \A r \in Calls :
          (IsAnswered(r) /\ Status(r) \in {400, 422}) =>
              /\ pc[r] = "Rejected"
              /\ request[r] = None /\ locals[r] = None /\ frame[r] = None
              /\ trace[r] = << >> /\ outcome[r] = None
    /\ Len(minted) = Cardinality(Orchestrated)
    /\ \A r \in Orchestrated :
          locals[r] # None =>
              \E i \in 1..Len(minted) : minted[i] = locals[r].request_id

\* The first request was answered 400, the second was served, and one
\* identifier was minted.
C26_Witness ==
    /\ IsAnswered(1) /\ Status(1) = 400
    /\ IsAnswered(2) /\ Status(2) = 200
    /\ Len(minted) = 1 /\ Len(trace[2]) = 3

\* The answer is the envelope of global_exception_handler.
IsGlobalEnvelope(resp) ==
    /\ "content" \in DOMAIN resp
    /\ DOMAIN resp.content =
          DOMAIN global_exception_handler(<< >>, "/api/v1/generate", 0).content

\* C27: an answer of the body of generate_educational_code is a 200 with
\* the whole response of the orchestrator, the 400 of the empty prompt
\* exactly as it was raised, or a 500 whose detail is "Code generation
\* failed: " and the message of the orchestrator's failure; it is never
\* the envelope of global_exception_handler.
C27_HandlerOutcomes ==
    \A r \in Calls :
        (IsAnswered(r) /\ Status(r) # 422) =>
            LET resp == http[r].response IN
            /\ Status(r) \in {200, 400, 500}
            /\ ~IsGlobalEnvelope(resp)
            /\ Status(r) = 200 =>
                  /\ outcome[r] # None /\ outcome[r].kind = "return"
                  /\ resp = JSONResponse(outcome[r].value)
                  /\ DOMAIN resp.content =
                        {"request_id", "generated_code", "line_explanations",
                         "chunked_code", "processing_time_seconds", "status"}
            /\ Status(r) = 400 =>
                  /\ resp = HTTPException(400, <<"Prompt cannot be empty">>)
                  /\ PromptIsEmpty(http[r].body.prompt)
                  /\ outcome[r] = None
            /\ Status(r) = 500 =>
                  /\ outcome[r] # None /\ outcome[r].kind = "raise"
                  /\ resp = HTTPException(500,
                         <<"Code generation failed: ">> \o outcome[r].message)
            /\ (outcome[r] # None /\ outcome[r].kind = "raise") =>
                  Status(r) = 500 /\ DOMAIN resp = {"status_code", "detail"}

\* The first request was answered the 400 of the empty prompt, the second
\* a 500 after the orchestrator failed.
C27_Witness ==
    /\ IsAnswered(1) /\ Status(1) = 400
    /\ http[1].response.detail = <<"Prompt cannot be empty">>
    /\ IsAnswered(2) /\ Status(2) = 500
    /\ outcome[2] # None /\ outcome[2].kind = "raise"

\* A message without its "Async " prefixes.
NotAsyncPrefix(x) == x # "Async "
Unprefixed(msg) == SelectSeq(msg, NotAsyncPrefix)

\* A piece of a message with its first letter in lower case.
Uncapitalised(x) ==
    CASE x = "Orchestration failed after " -> "orchestration failed after "
      [] x = "Code generation failed: " -> "code generation failed: "
      [] x = "Line explanation failed: " -> "line explanation failed: "
      [] x = "Code chunking failed: " -> "code chunking failed: "
      [] OTHER -> x
Reworded(msg) == [i \in 1..Len(msg) |-> Uncapitalised(msg[i])]

Finished(r) == pc[r] \in {"Completed", "Failed"}

\* Call s, by process_request, and call a, by aprocess_request, were given
\* the same request, and the external model gave both the same results
\* for as long as both asked; both have ended, after the same time and,
\* where the model gave no date, with the same current date.
SameInputs(s, a) ==
    /\ mode[s] = "sync" /\ mode[a] = "async"
    /\ Finished(s) /\ Finished(a)
    /\ args[s] = args[a]
    /\ \A i \in 1..Len(trace[s]) :
          i <= Len(trace[a]) => trace[s][i].reply = trace[a][i].reply
    /\ (HasReturned(s) /\ HasReturned(a)) =>
          /\ Response(s).processing_time_seconds =
                Response(a).processing_time_seconds
          /\ ReplyContent(s, 1).date = "" =>
                Response(s).generated_code.date =
                    Response(a).generated_code.date
    /\ (HasRaised(s) /\ HasRaised(a)) =>
          outcome[s].message[2] = outcome[a].message[3]

\* The stage calls of s and a are the same, in the same order, and ended
\* the same way.
SameCalls(s, a) ==
    /\ Len(trace[s]) = Len(trace[a])
    /\ \A i \in 1..Len(trace[s]) :
          i <= Len(trace[a]) =>
              /\ trace[s][i].stage = trace[a][i].stage
              /\ trace[s][i].end = trace[a][i].end
    /\ pc[s] = pc[a]
    /\ HasReturned(s) =>
          /\ HasReturned(a)
          /\ [Response(s) EXCEPT !.request_id = ""] =
                [Response(a) EXCEPT !.request_id = ""]
    /\ HasRaised(s) => HasRaised(a)

Suspended(r) == pc[r] \in {"Generating", "Explaining", "Chunking"}

\* C29: when every external call issued comes back, a request the
\* orchestrator was called for ends Completed or Failed; and a request
\* that waits for the external model leaves its stage only in the step in
\* which its call comes back: the passing of time and the steps of the
\* other requests leave it where it is, and it leaves them alone.
C29_EndsWhenCallsReturn ==
    /\ \A r \in Calls : (pc[r] = "Created") ~> Finished(r)
    /\ [][\A r \in Calls :
            (Suspended(r) /\ pc'[r] # pc[r]) =>
                /\ trace[r][Len(trace[r])].end = "pending"
                /\ trace'[r][Len(trace[r])].end # "pending"
                /\ \A q \in Calls \ {r} : Own(q)' = Own(q) /\ pc'[q] = pc[q]]_vars

\* The first request still waits for its first external call when the
\* clock has run out, and the second, made after it, is Completed.
C29_Witness ==
    /\ pc[1] = "Generating" /\ trace[1][1].end = "pending"
    /\ clock = MaxClock /\ locals[1].start_time = 0
    /\ pc[2] = "Completed" /\ IsAnswered(2) /\ Status(2) = 200

\* The number of line breaks of a text.
Breaks(text) == Cardinality({i \in 1..Len(text) : text[i] = NL})

\* The instruction was built for the code the explanation stage holds.
PromptBuilt == frame[1] # None /\ "prompt" \in DOMAIN frame[1]

\* The count the instruction states: "The code has <count> line(s) total."
StatedCount == frame[1].prompt[Len(frame[1].prompt) - 1]

\* C30: the count of lines the instruction of the explanation stage states
\* is the number of line breaks of the code plus one, the instruction
\* ending "The code has <count> line(s) total.": 1 for empty code, a blank
\* line between two lines counted, and one more line, empty, for a line
\* break that ends the code.
C30_ExpectedLineCount ==
    PromptBuilt =>
        LET code == frame[1].code_output.code
            prompt == frame[1].prompt
            n == Len(prompt)
        IN  /\ SubSeq(prompt, n - 3, n) =
                  <<NL, "The code has ", ToString(Breaks(code) + 1),
                    " line(s) total.">>
            /\ code = << >> => StatedCount = "1"
            /\ code = <<"a", NL, NL, "a">> => StatedCount = "3"
            /\ (code # << >> /\ code[Len(code)] = NL) =>
                  /\ StatedCount = ToString(
                        Breaks(SubSeq(code, 1, Len(code) - 1)) + 2)
                  /\ Split(code)[Len(Split(code))] = << >>

\* The instruction was built for a line, a blank line and a line break
\* that ends the code, and states 3 lines.
C30_Witness ==
    /\ PromptBuilt
    /\ frame[1].code_output.code = <<"a", NL, NL>>
    /\ StatedCount = "3"

=============================================================================
